---------------------------- MODULE Spec2Model ----------------------------
(***************************************************************************)
(* QPay / Shopify payment bridge.                                          *)
(*                                                                         *)
(* Part I   : the QPayClient token store, getAccessToken and               *)
(*            makeAuthenticatedRequest (src/lib/qpay.js, second class).    *)
(* Part II  : the serverless handlers api/create-invoice, api/webhook and  *)
(*            api/order-status over the Prisma table orderPayment.         *)
(* Part III : the Express routes of src/server.js, POST /api/webhook       *)
(*            behind the qpaySecurityMiddleware, and the check-payment     *)
(*            handler of the Next.js pages.                                *)
(* Part IV  : QPayClient.createInvoice and the invoice route of            *)
(*            src/api-old/qpay/token.ts, called with the data of their     *)
(*            caller.                                                      *)
(* Part V   : rateLimitQPayWebhooks of middleware/qpay-security.js, the    *)
(*            rate limiter of the QPay webhook routes, the middleware      *)
(*            chain around it, and GET /health.                            *)
(* Part VI  : the React component PaymentPage, its countdown and its       *)
(*            status checks.                                               *)
(*                                                                         *)
(* Node.js runs a handler without interruption between two awaits of real  *)
(* I/O, so every action below is one such uninterrupted stretch: it starts *)
(* when a call is made or a response arrives and ends at the next await of *)
(* an HTTP or database call.  Consecutive awaits are joined into one       *)
(* action where the handler reads no shared state between them and        *)
(* answers from what it read after them.                                   *)
(***************************************************************************)
EXTENDS Integers, Sequences, FiniteSets, TLC

(***************************************************************************)
(* Bounds of the model.                                                    *)
(***************************************************************************)
MaxTokens == 4
MaxTime == 1
MaxExpiresIn == 1
MaxInvoices == 2
MaxCalls == 2
MaxDate == 2
MaxItems == 2
MaxQuantity == 2
MaxPrice == 2
MaxClock == 2
MaxWebhookRequests == 12
MaxTimeLeft == 3
MaxChecks == 2

(***************************************************************************)
(* Program constants.                                                      *)
(***************************************************************************)
maxRetries == 2

\* The buffer QPayService.getAccessToken keeps before the expiry (300000 ms),
\* in the unit of now: one unit of time is five minutes.
Margin == 1

Null == 0

\* RATE_LIMIT_WINDOW (60 * 1000 ms) in the unit of dateNow: one unit of that
\* clock is half a minute.
RATE_LIMIT_WINDOW == 2

\* Max 10 webhook attempts per minute per IP.
MAX_ATTEMPTS == 10

\* Two callers share one client: every claim below is about one call, or about
\* one call and the call before it.
Callers == {1, 2}

\* HTTP statuses the gateway answers to a request; NetErr is a timeout or a
\* connection failure (axios rejects with an error that has no response).
NetErr   == 0
Statuses == {200, 401, 500, NetErr}

\* The Shopify orders.  Every look-up and update of the handlers is keyed by
\* one order id or one invoice id, so the rows of two orders never meet; the
\* claims are about one order and its payment.
Orders == {1}

\* The addresses a webhook request comes from, or names in a header.
Ips == {1, 2}

\* The HTTP requests the server serves at one time.
Slots  == {1, 2}

\* payload.payment_status of a notification, statusResult.status of a check.
PaymentStatuses == {"PAID", "FAILED", "PENDING"}

\* Money is counted in halves of a tugrik, so that the amount 1.5 of a
\* request body is the number 3: the amounts -1, 0 (or no amount), 1, 1.5.
Amounts == {-2, 0, 2, 3}

\* payload.payment_id, the gateway's transaction id of a payment.
PaymentId == 1

\* A lookup that finds no row (Prisma returns null).
NoRow == [id |-> Null, shopifyOrderId |-> Null, qpayInvoiceId |-> Null,
          status |-> "none", paidAt |-> Null, transactionId |-> Null]

\* A request without signature header.
NoSignature == [mac |-> <<>>, bytes |-> 0]

\* A slot that serves no request.
IdleRequest == [kind |-> "none", pc |-> "idle", orderId |-> Null,
                invoiceId |-> Null, paymentStatus |-> "none", found |-> NoRow]

\* No request arrived in the latest step.
NoArrival == [kind |-> "none", orderId |-> Null, invoiceId |-> Null,
              paymentStatus |-> "none", signature |-> NoSignature,
              amount |-> 0]

\* No response was sent in the latest step.
NoResponse == [kind |-> "none", orderId |-> Null, invoiceId |-> Null,
               paymentStatus |-> "none", code |-> Null, message |-> "",
               dataInvoiceId |-> Null, dataStatus |-> "none"]

NoCalls == [createTransaction |-> 0, updateOrderFinancialStatus |-> 0]

\* No invoice-creating operation was called.
NoInvoiceCall == [op |-> "none", orderId |-> Null, amount |-> 0,
                  supplied |-> FALSE, lineItems |-> <<>>, requested |-> FALSE,
                  payloadAmount |-> 0, payloadLines |-> <<>>,
                  success |-> FALSE, code |-> Null]

VARIABLES
  accessToken,    \* this.accessToken : Null or a token
  tokenExpiry,    \* this.tokenExpiry : Null or an instant
  now,            \* Date.now()
  issued,         \* tokens issued by the gateway so far
  pc,             \* per caller: idle, authWait, reqWait, done, failed
  retryCount,     \* per caller: the retryCount argument of the running attempt
  bearer,         \* per caller: the token put in the Authorization header
  log,            \* per caller: what the running logical call did, in order
  startNull,      \* per caller: the store was cleared when the call began
  lastBearer,     \* the token of the latest request sent by any caller
  authSinceSend,  \* authenticate() was called since that request
  lastWritten     \* the pair the latest successful authenticate() wrote

clientVars == <<accessToken, tokenExpiry, issued, pc, retryCount,
                bearer, log, startNull, lastBearer, authSinceSend,
                lastWritten>>

tokenVars == <<clientVars, now>>

VARIABLES
  orderPayment,     \* the rows of the Prisma table orderPayment
  gatewayInvoices,  \* invoices the gateway has created so far
  shopifyCalls,     \* per order: calls made to the Shopify order-update API
  request,          \* per slot: the HTTP request a handler is serving
  arrival,          \* the request that arrived in the latest step
  response,         \* the response sent in the latest step
  secretConfigured, \* process.env.WEBHOOK_SECRET / QPAY_WEBHOOK_SECRET is set
  orderUpdateFailed \* orders with a Shopify order-update call that failed

apiVars == <<orderPayment, gatewayInvoices, shopifyCalls, request, arrival,
             response, secretConfigured, orderUpdateFailed>>

VARIABLES
  invoiceCall       \* the latest call of an invoice-creating operation

VARIABLES
  webhookAttempts,  \* the Map of middleware/qpay-security.js: IP -> times
  dateNow,          \* Date.now() as the rate limiter reads it
  admitted,         \* per IP: the times of the requests handed to next()
  webhookRequests,  \* requests the rate limiter has seen so far
  limiterResult,    \* what the rate limiter did with the latest request
  securityResult    \* what qpaySecurityMiddleware did with that request

limiterVars == <<webhookAttempts, dateNow, admitted, webhookRequests,
                 limiterResult, securityResult>>

VARIABLES
  page              \* the state of the PaymentPage component and its timers

\* What the token machine of Part I leaves alone.
otherVars == <<apiVars, invoiceCall, limiterVars, page>>

vars == <<tokenVars, apiVars, invoiceCall, limiterVars, page>>

(***************************************************************************)
(* Helpers over a call's log.                                              *)
(***************************************************************************)
Events == {"auth", "authOk", "authHttp", "authNet", "authNoToken", "authThrow",
           "req", "r200", "r401", "rErr", "rNet",
           "get", "force", "valid", "stale", "cached"}

RECURSIVE CountOf(_, _)
CountOf(s, e) ==
  IF s = <<>> THEN 0
  ELSE (IF Head(s) = e THEN 1 ELSE 0) + CountOf(Tail(s), e)

IsResponse(e) == e \in {"r200", "r401", "rErr", "rNet"}

Responses(s) == SelectSeq(s, IsResponse)

\* Index of the n-th occurrence of e in s, 0 when there is none.
RECURSIVE NthIndex(_, _, _, _)
NthIndex(s, e, n, from) ==
  IF from > Len(s) THEN 0
  ELSE IF s[from] = e
       THEN (IF n = 1 THEN from ELSE NthIndex(s, e, n - 1, from + 1))
       ELSE NthIndex(s, e, n, from + 1)

StatusEvent(st) ==
  CASE st = 200 -> "r200"
    [] st = 401 -> "r401"
    [] st = NetErr -> "rNet"
    [] OTHER -> "rErr"

(***************************************************************************)
(* QPayClient.getAccessToken: the condition under which it authenticates.  *)
(***************************************************************************)
NeedsRefreshAlways(tok, exp, forceRefresh) == TRUE

NeedsRefreshWhenExpired(tok, exp, forceRefresh) == tok # Null /\ now >= exp

NeedsRefreshForcedOnly(tok, exp, forceRefresh) == forceRefresh

NeedsRefreshUnforced(tok, exp, forceRefresh) == tok = Null \/ now >= exp

NeedsRefresh(tok, exp, forceRefresh) ==
  \/ tok = Null
  \/ now >= exp
  \/ forceRefresh

\* QPayService.getAccessToken: the condition under which it returns the cached
\* token.
TokenStillValid(tok, exp) == tok # Null /\ now < exp - Margin

(***************************************************************************)
(* QPayClient.authenticate: the two assignments that follow the response   *)
(* of the token endpoint, with no await between them.                      *)
(***************************************************************************)
StoreTokenOnly(tok, exp) == accessToken' = tok /\ UNCHANGED tokenExpiry

StoreNothing(tok, exp) == UNCHANGED <<accessToken, tokenExpiry>>

StoreToken(tok, exp) == accessToken' = tok /\ tokenExpiry' = exp

(***************************************************************************)
(* QPayClient.authenticate: what the token endpoint can answer, and what   *)
(* the method makes of it.  axios.post rejects on an HTTP error status and *)
(* on a network failure or timeout; a body without access_token is thrown  *)
(* as 'Invalid response format'.  The catch clause turns whatever the try  *)
(* block throws into the result { success: false }.                        *)
(***************************************************************************)
AuthOutcomes == {"token", "noToken", "http", "net"}

AuthTry(outcome) == IF outcome = "token" THEN "return" ELSE "throw"

authenticateRethrows(outcome) ==
  [success |-> AuthTry(outcome) = "return",
   thrown  |-> AuthTry(outcome) = "throw"]

authenticate(outcome) ==
  [success |-> AuthTry(outcome) = "return", thrown |-> FALSE]

\* The event a call's log keeps of the result of authenticate().
AuthEvent(outcome, result) ==
  CASE result.thrown    -> "authThrow"
    [] result.success   -> "authOk"
    [] outcome = "http" -> "authHttp"
    [] outcome = "net"  -> "authNet"
    [] OTHER            -> "authNoToken"

AuthFailures == {"authHttp", "authNet", "authNoToken"}

(***************************************************************************)
(* QPayClient.getAccessToken: the test of the result of authenticate(),    *)
(* on which it throws 'Authentication failed'.                             *)
(***************************************************************************)
AuthenticationFailedIgnored(authResult) == FALSE

AuthenticationFailed(authResult) == ~authResult.success

(***************************************************************************)
(* QPayClient.makeAuthenticatedRequest: the catch clause's retry test.     *)
(***************************************************************************)
ShouldRetryUnbounded(status, rc) == status = 401

ShouldRetryAnyError(status, rc) == status # 200 /\ rc < maxRetries

ShouldRetry(status, rc) == status = 401 /\ rc < maxRetries

(***************************************************************************)
(* The synchronous head of makeAuthenticatedRequest(method, endpoint,      *)
(* data, rc): getAccessToken(rc > 0) either starts authenticate() and      *)
(* awaits the token endpoint, or returns the cached token, and then axios  *)
(* sends the request.  lg is the call's log so far, tok and exp the store   *)
(* as the attempt finds it.                                                *)
(***************************************************************************)
BeginAttempt(c, rc, lg, tok, exp) ==
  /\ retryCount' = [retryCount EXCEPT ![c] = rc]
  /\ IF NeedsRefresh(tok, exp, rc > 0)
     THEN /\ pc' = [pc EXCEPT ![c] = "authWait"]
          /\ log' = [log EXCEPT ![c] = Append(lg, "auth")]
          /\ authSinceSend' = TRUE
          /\ UNCHANGED <<bearer, lastBearer>>
     ELSE /\ pc' = [pc EXCEPT ![c] = "reqWait"]
          /\ bearer' = [bearer EXCEPT ![c] = tok]
          /\ log' = [log EXCEPT ![c] = Append(lg, "req")]
          /\ lastBearer' = tok
          /\ authSinceSend' = FALSE

\* A caller starts a logical call: makeAuthenticatedRequest with retryCount 0.
Start(c) ==
  /\ pc[c] = "idle"
  /\ startNull' = [startNull EXCEPT ![c] = (accessToken = Null /\ tokenExpiry = Null)]
  /\ UNCHANGED <<accessToken, tokenExpiry, now, issued, lastWritten>>
  /\ BeginAttempt(c, 0, <<>>, accessToken, tokenExpiry)

\* The token endpoint answers authenticate().  On a body with access_token the
\* pair is stored and getAccessToken returns this.accessToken, which goes out
\* in the request; otherwise authenticate returns success false, getAccessToken
\* throws, and the catch clause rethrows (the error has no response).
AuthResponse(c) ==
  /\ pc[c] = "authWait"
  /\ \E outcome \in AuthOutcomes :
       LET result == authenticate(outcome)
       IN  /\ IF result.success
              THEN /\ issued < MaxTokens
                   /\ \E expires_in \in 1..MaxExpiresIn :
                        /\ StoreToken(issued + 1, now + expires_in)
                        /\ lastWritten' = <<issued + 1, now + expires_in>>
                   /\ issued' = issued + 1
              ELSE UNCHANGED <<accessToken, tokenExpiry, issued, lastWritten>>
           /\ IF AuthenticationFailed(result)
              THEN /\ pc' = [pc EXCEPT ![c] = "failed"]
                   /\ log' = [log EXCEPT ![c] =
                                Append(log[c], AuthEvent(outcome, result))]
                   /\ UNCHANGED <<bearer, lastBearer, authSinceSend>>
              ELSE /\ pc' = [pc EXCEPT ![c] = "reqWait"]
                   /\ bearer' = [bearer EXCEPT ![c] = accessToken']
                   /\ log' = [log EXCEPT ![c] =
                                log[c] \o <<AuthEvent(outcome, result), "req">>]
                   /\ lastBearer' = accessToken'
                   /\ authSinceSend' = FALSE
  /\ UNCHANGED <<now, retryCount, startNull>>

\* The gateway answers the request.  200 is returned; a 401 below the retry
\* bound clears the store and calls makeAuthenticatedRequest again with
\* retryCount + 1; anything else is thrown to the caller.
ReqResponse(c) ==
  /\ pc[c] = "reqWait"
  /\ \E status \in Statuses :
       IF status = 200
       THEN /\ pc' = [pc EXCEPT ![c] = "done"]
            /\ log' = [log EXCEPT ![c] = Append(log[c], "r200")]
            /\ UNCHANGED <<accessToken, tokenExpiry, retryCount, bearer,
                           lastBearer, authSinceSend>>
       ELSE IF ShouldRetry(status, retryCount[c])
       THEN /\ accessToken' = Null
            /\ tokenExpiry' = Null
            /\ BeginAttempt(c, retryCount[c] + 1,
                            Append(log[c], StatusEvent(status)), Null, Null)
       ELSE /\ pc' = [pc EXCEPT ![c] = "failed"]
            /\ log' = [log EXCEPT ![c] = Append(log[c], StatusEvent(status))]
            /\ UNCHANGED <<accessToken, tokenExpiry, retryCount, bearer,
                           lastBearer, authSinceSend>>
  /\ UNCHANGED <<now, issued, startNull, lastWritten>>

\* The caller takes the result; the slot is free for the next call.
Return(c) ==
  /\ pc[c] \in {"done", "failed"}
  /\ pc' = [pc EXCEPT ![c] = "idle"]
  /\ log' = [log EXCEPT ![c] = <<>>]
  /\ retryCount' = [retryCount EXCEPT ![c] = 0]
  /\ bearer' = [bearer EXCEPT ![c] = Null]
  /\ startNull' = [startNull EXCEPT ![c] = FALSE]
  /\ UNCHANGED <<accessToken, tokenExpiry, now, issued, lastBearer,
                 authSinceSend, lastWritten>>

Tick ==
  /\ now < MaxTime
  /\ now' = now + 1
  /\ UNCHANGED clientVars

ClientInit ==
  /\ accessToken = Null
  /\ tokenExpiry = Null
  /\ issued = 0
  /\ pc = [c \in Callers |-> "idle"]
  /\ retryCount = [c \in Callers |-> 0]
  /\ bearer = [c \in Callers |-> Null]
  /\ log = [c \in Callers |-> <<>>]
  /\ startNull = [c \in Callers |-> FALSE]
  /\ lastBearer = Null
  /\ authSinceSend = FALSE
  /\ lastWritten = <<Null, Null>>

TokenInit == ClientInit /\ now = 0

\* The rate limiter has seen no request: new Map().
NoLimiterResult == [clientIP |-> Null, time |-> 0, next |-> FALSE,
                    code |-> Null]

\* PaymentPage as it is mounted: the state of the first render, the
\* countdown at its start (15 * 60 seconds, bounded), createInvoice called
\* by its effect and awaiting the answer, no status check under way.
PageMounted == [status |-> "loading", timeLeft |-> MaxTimeLeft,
                invoiceId |-> Null, creating |-> TRUE, paid |-> FALSE,
                checks |-> {}, redirect |-> FALSE, left |-> FALSE]

\* qpaySecurityMiddleware has served no request.
NoSecurityResult == [stages |-> <<>>, code |-> Null, genuine |-> FALSE]

LimiterQuiet ==
  /\ webhookAttempts = <<>>
  /\ dateNow = 0
  /\ admitted = [ip \in Ips |-> <<>>]
  /\ webhookRequests = 0
  /\ limiterResult = NoLimiterResult
  /\ securityResult = NoSecurityResult

\* No order, no invoice, no request: the handlers of Parts II and III are not
\* running.
ApiQuiet ==
  /\ orderPayment = {}
  /\ gatewayInvoices = 0
  /\ shopifyCalls = [o \in Orders |-> NoCalls]
  /\ request = [s \in Slots |-> IdleRequest]
  /\ arrival = NoArrival
  /\ response = NoResponse
  /\ orderUpdateFailed = {}
  /\ invoiceCall = NoInvoiceCall
  /\ LimiterQuiet
  /\ page = PageMounted

Init == TokenInit /\ ApiQuiet /\ secretConfigured = TRUE

Next ==
  \/ \E c \in Callers : Start(c) /\ UNCHANGED otherVars
  \/ \E c \in Callers : AuthResponse(c) /\ UNCHANGED otherVars
  \/ \E c \in Callers : ReqResponse(c) /\ UNCHANGED otherVars
  \/ \E c \in Callers : Return(c) /\ UNCHANGED otherVars
  \/ Tick /\ UNCHANGED otherVars

Spec == Init /\ [][Next]_vars

\* Every request to the token endpoint and to the gateway is made with
\* timeout: 30000, so each of them is answered or fails: a call that waits
\* is eventually resumed.
SpecFair ==
  /\ Spec
  /\ \A c \in Callers :
       /\ WF_vars(AuthResponse(c) /\ UNCHANGED otherVars)
       /\ WF_vars(ReqResponse(c) /\ UNCHANGED otherVars)

(***************************************************************************)
(* authenticate() and getAccessToken(forceRefresh) called by themselves,   *)
(* as the test scripts and the health check call them, next to the         *)
(* authenticated calls above.  A call that returned is "done", a call that *)
(* threw is "failed".                                                      *)
(***************************************************************************)
\* authenticate() is called: the request goes to the token endpoint.
Authenticate(c) ==
  /\ pc[c] = "idle"
  /\ pc' = [pc EXCEPT ![c] = "authCall"]
  /\ log' = [log EXCEPT ![c] = <<"auth">>]
  /\ authSinceSend' = TRUE
  /\ UNCHANGED <<accessToken, tokenExpiry, now, issued, retryCount, bearer,
                 startNull, lastBearer, lastWritten>>

\* The token endpoint answers: the pair is stored and success returned, or
\* the store is left alone and the failure returned.
AuthenticateResponse(c) ==
  /\ pc[c] = "authCall"
  /\ \E outcome \in AuthOutcomes :
       LET result == authenticate(outcome)
       IN  /\ log' = [log EXCEPT ![c] =
                        Append(log[c], AuthEvent(outcome, result))]
           /\ IF result.success
              THEN /\ issued < MaxTokens
                   /\ \E expires_in \in 1..MaxExpiresIn :
                        /\ StoreToken(issued + 1, now + expires_in)
                        /\ lastWritten' = <<issued + 1, now + expires_in>>
                   /\ issued' = issued + 1
                   /\ pc' = [pc EXCEPT ![c] = "done"]
              ELSE /\ pc' = [pc EXCEPT ![c] =
                               IF result.thrown THEN "failed" ELSE "done"]
                   /\ UNCHANGED <<accessToken, tokenExpiry, issued,
                                  lastWritten>>
  /\ UNCHANGED <<now, retryCount, bearer, startNull, lastBearer,
                 authSinceSend>>

\* getAccessToken(forceRefresh) is called: it returns the cached token, or
\* calls authenticate().  The log begins with the argument and with what the
\* cached token was at the call.
GetAccessToken(c, forceRefresh) ==
  /\ pc[c] = "idle"
  /\ LET head == <<IF forceRefresh THEN "force" ELSE "get",
                   IF accessToken # Null /\ now < tokenExpiry
                   THEN "valid" ELSE "stale">>
     IN  IF NeedsRefresh(accessToken, tokenExpiry, forceRefresh)
         THEN /\ pc' = [pc EXCEPT ![c] = "tokenWait"]
              /\ log' = [log EXCEPT ![c] = Append(head, "auth")]
              /\ authSinceSend' = TRUE
              /\ UNCHANGED bearer
         ELSE /\ pc' = [pc EXCEPT ![c] = "done"]
              /\ log' = [log EXCEPT ![c] = Append(head, "cached")]
              /\ bearer' = [bearer EXCEPT ![c] = accessToken]
              /\ UNCHANGED authSinceSend
  /\ UNCHANGED <<accessToken, tokenExpiry, now, issued, retryCount,
                 startNull, lastBearer, lastWritten>>

\* The token endpoint answers the authenticate() of getAccessToken, which
\* returns this.accessToken on success and throws 'Authentication failed'
\* otherwise.
GetAccessTokenResponse(c) ==
  /\ pc[c] = "tokenWait"
  /\ \E outcome \in AuthOutcomes :
       LET result == authenticate(outcome)
       IN  /\ log' = [log EXCEPT ![c] =
                        Append(log[c], AuthEvent(outcome, result))]
           /\ IF result.success
              THEN /\ issued < MaxTokens
                   /\ \E expires_in \in 1..MaxExpiresIn :
                        /\ StoreToken(issued + 1, now + expires_in)
                        /\ lastWritten' = <<issued + 1, now + expires_in>>
                   /\ issued' = issued + 1
              ELSE UNCHANGED <<accessToken, tokenExpiry, issued, lastWritten>>
           /\ IF AuthenticationFailed(result)
              THEN /\ pc' = [pc EXCEPT ![c] = "failed"]
                   /\ UNCHANGED bearer
              ELSE /\ pc' = [pc EXCEPT ![c] = "done"]
                   /\ bearer' = [bearer EXCEPT ![c] = accessToken']
  /\ UNCHANGED <<now, retryCount, startNull, lastBearer, authSinceSend>>

TokenNext ==
  \/ Next
  \/ \E c \in Callers : Authenticate(c) /\ UNCHANGED otherVars
  \/ \E c \in Callers :
       AuthenticateResponse(c) /\ UNCHANGED otherVars
  \/ \E c \in Callers, forceRefresh \in BOOLEAN :
       GetAccessToken(c, forceRefresh) /\ UNCHANGED otherVars
  \/ \E c \in Callers :
       GetAccessTokenResponse(c) /\ UNCHANGED otherVars

SpecToken == Init /\ [][TokenNext]_vars

(***************************************************************************)
(* Claims about the token store and makeAuthenticatedRequest (Spec).       *)
(***************************************************************************)

AuthsAfter401(lg, n) ==
  CountOf(SubSeq(lg, NthIndex(lg, "r401", n, 1) + 1,
                 NthIndex(lg, "req", n + 1, 1) - 1), "auth")

\* C8: when the gateway answers 401 to the first attempt and 200 to the
\* retry, the call returns the 200 response and made exactly one
\* authenticate() call between the 401 and the retried request.
C8_RetryAfter401Succeeds ==
  \A c \in Callers :
    Responses(log[c]) = <<"r401", "r200">> =>
      /\ pc[c] = "done"
      /\ CountOf(log[c], "req") = 2
      /\ AuthsAfter401(log[c], 1) = 1

C8_Witness ==
  \E c \in Callers : pc[c] = "done" /\ Responses(log[c]) = <<"r401", "r200">>

\* C9: a call made while the cached token is inside its validity window, and
\* that token is the one the previous request carried, sends the identical
\* token at once, and authenticate() was not called since that request.
C9_TokenReuse ==
  [][\A c \in Callers :
       ( /\ pc[c] = "idle" /\ pc'[c] # "idle"
         /\ accessToken # Null /\ now < tokenExpiry
         /\ lastBearer = accessToken )
       => ( /\ pc'[c] = "reqWait"
            /\ bearer'[c] = lastBearer
            /\ log'[c] = <<"req">>
            /\ authSinceSend = FALSE /\ authSinceSend' = FALSE
            /\ accessToken' = accessToken /\ tokenExpiry' = tokenExpiry )]_vars

C9_Witness ==
  \E c \in Callers :
    /\ log[c] = <<"req">>
    /\ bearer[c] # Null /\ bearer[c] = accessToken

\* C10: a call that begins with the store cleared makes exactly one
\* authenticate() call before it sends its first request.
C10_OneAuthAfterClear ==
  \A c \in Callers :
    (startNull[c] /\ CountOf(log[c], "req") >= 1) =>
      /\ CountOf(SubSeq(log[c], 1, NthIndex(log[c], "req", 1, 1) - 1), "auth") = 1
      /\ SubSeq(log[c], 1, 3) = <<"auth", "authOk", "req">>

C10_Witness ==
  \E c \in Callers : startNull[c] /\ CountOf(log[c], "req") >= 1 /\ issued >= 2

\* C11: a call that begins reuses the cached token without authenticate()
\* exactly when a token is held and now is earlier than its expiry minus the
\* safety margin; in every other case it authenticates, and a successful
\* authenticate() leaves a stored expiry later than now.
C11_ValidIffInsideMargin ==
  [][\A c \in Callers :
       /\ (pc[c] = "idle" /\ pc'[c] # "idle") =>
            ( (pc'[c] = "reqWait" /\ log'[c] = <<"req">>)
                <=> TokenStillValid(accessToken, tokenExpiry) )
       /\ (pc[c] = "authWait" /\ pc'[c] = "reqWait") => tokenExpiry' > now']_vars

\* C12: whenever another call can run, the store holds either the cleared
\* pair or the token and the expiry that one successful authenticate() wrote
\* together (the latest one: the last writer wins).
C12_NoTornPair ==
  \/ accessToken = Null /\ tokenExpiry = Null
  \/ accessToken # Null /\ <<accessToken, tokenExpiry>> = lastWritten

\* Two calls were forced to refresh after a 401, both authenticated, and the
\* store holds the pair of the second writer.
C12_Witness ==
  /\ \A c \in Callers : retryCount[c] > 0 /\ CountOf(log[c], "authOk") >= 2
  /\ accessToken = issued
  /\ issued >= 4

\* The calls that await the token endpoint.
AuthWaits == {"authWait", "authCall", "tokenWait"}

\* C24: authenticate() never throws, whoever calls it: every answer of the
\* token endpoint other than a body with access_token ends in a returned
\* failure, a direct call of authenticate() returns, and the step in which
\* the failure is returned leaves accessToken and tokenExpiry as they were.
C24_AuthenticateNeverThrows ==
  [][\A c \in Callers :
       /\ CountOf(log'[c], "authThrow") = 0
       /\ (pc[c] = "authCall" /\ pc'[c] # "authCall") => pc'[c] = "done"
       /\ ( /\ pc[c] \in AuthWaits
            /\ pc'[c] # pc[c]
            /\ log'[c][Len(log'[c])] # "req"
            /\ log'[c][Len(log'[c])] # "authOk" )
          => /\ log'[c][Len(log'[c])] \in AuthFailures
             /\ accessToken' = accessToken
             /\ tokenExpiry' = tokenExpiry]_vars

\* Two direct calls of authenticate() returned a failure, one for a body
\* without access_token and one for an HTTP error status, and the store
\* still holds the token of an earlier call.
C24_Witness ==
  /\ pc = [c \in Callers |-> "done"]
  /\ log[1] = <<"auth", "authNoToken">>
  /\ log[2] = <<"auth", "authHttp">>
  /\ accessToken # Null

\* C25: when the authenticate() of an authenticated call fails, on the first
\* attempt or on the forced refresh after a 401, the call throws in that
\* step: the failure is the last thing the call did, every other
\* authenticate() of the call succeeded and is followed at once by the
\* request, a retried request follows such an authenticate(), and a request
\* never goes out without a token.
C25_AuthFailureFailsCall ==
  \A c \in Callers :
    /\ \A i \in 1..Len(log[c]) :
         /\ log[c][i] \in AuthFailures =>
              /\ i = Len(log[c])
              /\ pc[c] = "failed"
         /\ (log[c][i] = "auth" /\ i < Len(log[c])) =>
              \/ log[c][i + 1] \in AuthFailures
              \/ /\ log[c][i + 1] = "authOk"
                 /\ i + 2 <= Len(log[c])
                 /\ log[c][i + 2] = "req"
         /\ (log[c][i] = "req" /\ i > 1) => log[c][i - 1] = "authOk"
    /\ pc[c] = "reqWait" => bearer[c] # Null

\* One call failed in the authenticate() of its first attempt, the other in
\* the forced refresh after a 401.
C25_Witness ==
  /\ pc = [c \in Callers |-> "failed"]
  /\ log[1] = <<"auth", "authHttp">>
  /\ log[2] = <<"auth", "authOk", "req", "r401", "auth", "authNet">>

\* C26: when the gateway answers a request with an HTTP error status other
\* than 401, or the request times out or fails in the network, the call
\* throws in that step: it sends no retry, calls no authenticate(), and
\* leaves accessToken and tokenExpiry as they were.
C26_OtherFailureSurfaces ==
  [][\A c \in Callers :
       ( /\ pc[c] = "reqWait"
         /\ Len(log'[c]) > Len(log[c])
         /\ log'[c][Len(log[c]) + 1] \in {"rErr", "rNet"} )
       => ( /\ pc'[c] = "failed"
            /\ log'[c] = Append(log[c], log'[c][Len(log[c]) + 1])
            /\ retryCount'[c] = retryCount[c]
            /\ accessToken' = accessToken
            /\ tokenExpiry' = tokenExpiry
            /\ issued' = issued )]_vars

\* One call was thrown an HTTP error status, the other a network failure,
\* each after a single request, and the token they sent is still stored.
C26_Witness ==
  /\ pc = [c \in Callers |-> "failed"]
  /\ log[1] = <<"auth", "authOk", "req", "rErr">>
  /\ log[2] = <<"req", "rNet">>
  /\ accessToken # Null
  /\ accessToken = bearer[2]

\* C29: getAccessToken(true) calls authenticate() whatever the cached token
\* is, and the token it returns on success is the one that authenticate()
\* was just issued, which is also the one stored; the forced refresh of a
\* retried authenticated call does the same and sends that token.
C29_ForceRefreshAuthenticates ==
  [][\A c \in Callers :
       /\ ( /\ pc[c] = "idle"
            /\ log'[c] # <<>>
            /\ log'[c][1] = "force" )
          => ( /\ pc'[c] = "tokenWait"
               /\ log'[c][Len(log'[c])] = "auth" )
       /\ ( /\ pc[c] = "tokenWait"
            /\ log[c][1] = "force"
            /\ pc'[c] = "done" )
          => ( /\ issued' = issued + 1
               /\ bearer'[c] = issued'
               /\ bearer'[c] # accessToken
               /\ accessToken' = bearer'[c] )
       /\ (pc[c] = "reqWait" /\ retryCount'[c] > retryCount[c])
          => pc'[c] = "authWait"
       /\ (pc[c] = "authWait" /\ retryCount[c] > 0 /\ pc'[c] = "reqWait")
          => ( /\ issued' = issued + 1
               /\ bearer'[c] = issued' )]_vars

\* A forced call made while the cached token was valid returned the token
\* issued last, after an earlier one had been issued.
C29_Witness ==
  \E c \in Callers :
    /\ pc[c] = "done"
    /\ log[c] = <<"force", "valid", "auth", "authOk">>
    /\ bearer[c] = issued
    /\ issued >= 2

\* C30: every authenticated call sends at most maxRetries + 1 requests and
\* makes at most maxRetries + 1 authenticate() calls, whatever the gateway
\* answers and whatever the other calls do to the store, and a call that
\* waits for the token endpoint or for the gateway eventually returns or
\* throws.
C30_CallTerminates ==
  /\ [](\A c \in Callers :
          /\ CountOf(log[c], "req") <= maxRetries + 1
          /\ CountOf(log[c], "auth") <= maxRetries + 1)
  /\ \A c \in Callers :
       (pc[c] \in {"authWait", "reqWait"}) ~> (pc[c] \in {"done", "failed"})

\* A call has ended after three requests and three authenticate() calls
\* while the other call, answered 401 as well, cleared and refreshed the
\* store.
C30_Witness ==
  \E c, d \in Callers :
    /\ c # d
    /\ pc[c] = "failed"
    /\ CountOf(log[c], "req") = 3
    /\ CountOf(log[c], "auth") = 3
    /\ retryCount[d] > 0

\* C31: every request makeAuthenticatedRequest has sent carries a token that
\* is not null and that a successful authenticate() stored, whenever the
\* 401 handling of the other call cleared the store around it.
C31_BearerIssued ==
  /\ \A c \in Callers : pc[c] = "reqWait" => bearer[c] \in 1..issued
  /\ lastBearer \in 0..issued

\* The store held a token when call c began, the 401 handling of call d
\* cleared it while c awaited authenticate(), and c has sent the token its
\* own authenticate() stored afterwards.
C31_Witness ==
  \E c, d \in Callers :
    /\ c # d
    /\ pc[c] = "reqWait"
    /\ ~startNull[c]
    /\ log[c] = <<"auth", "authOk", "req">>
    /\ pc[d] = "authWait"
    /\ retryCount[d] = 1
    /\ issued = 2
    /\ bearer[c] = 2
    /\ accessToken = 2

(***************************************************************************)
(* Part II.  DatabaseClient over the table orderPayment.  A row keeps the  *)
(* columns the handlers decide on.  The Prisma schema is not part of the   *)
(* sources; its unique keys are those of the specification's store         *)
(* interface: the order id, and the invoice id once one is assigned.       *)
(***************************************************************************)
UniqueKeysAbsent(table, row) == TRUE

UniqueKeys(table, row) ==
  /\ \A r \in table : r.shopifyOrderId # row.shopifyOrderId
  /\ row.qpayInvoiceId # Null =>
       \A r \in table : r.qpayInvoiceId # row.qpayInvoiceId

\* prisma.orderPayment.findUnique({ where: { qpayInvoiceId } })
getOrderPaymentByInvoiceId(table, qpayInvoiceId) ==
  IF qpayInvoiceId # Null /\ \E r \in table : r.qpayInvoiceId = qpayInvoiceId
  THEN CHOOSE r \in table : r.qpayInvoiceId = qpayInvoiceId
  ELSE NoRow

getOrderPaymentByShopifyIdNone(table, shopifyOrderId) == NoRow

\* prisma.orderPayment.findFirst({ where: { shopifyOrderId } })
getOrderPaymentByShopifyId(table, shopifyOrderId) ==
  IF \E r \in table : r.shopifyOrderId = shopifyOrderId
  THEN CHOOSE r \in table : r.shopifyOrderId = shopifyOrderId
  ELSE NoRow

\* prisma.orderPayment.create: the status is always 'pending'; a violated
\* unique key makes create throw, and the method returns success false.
createOrderPayment(table, shopifyOrderId, qpayInvoiceId) ==
  LET row == [id |-> Cardinality(table) + 1, shopifyOrderId |-> shopifyOrderId,
              qpayInvoiceId |-> qpayInvoiceId, status |-> "pending",
              paidAt |-> Null, transactionId |-> Null]
  IN  IF UniqueKeys(table, row) THEN table \cup {row} ELSE table

\* prisma.orderPayment.update({ where: { qpayInvoiceId }, data }): paidAt and
\* transactionId are written only with status 'paid'.  Without a row the
\* update throws and the method returns success false.
updatePaymentStatus(table, qpayInvoiceId, status, transactionId, date) ==
  LET old == getOrderPaymentByInvoiceId(table, qpayInvoiceId)
  IN  IF old = NoRow THEN table
      ELSE (table \ {old}) \cup
           {[old EXCEPT !.status = status,
                        !.paidAt = IF status = "paid" THEN date ELSE @,
                        !.transactionId =
                           IF status = "paid" THEN transactionId ELSE @]}

\* One more call of operation op for the order.
Invoke(calls, shopifyOrderId, op) ==
  [calls EXCEPT ![shopifyOrderId][op] = @ + 1]

\* shopify.createTransaction followed by shopify.updateOrderFinancialStatus.
UpdateShopifyOrder(calls, shopifyOrderId) ==
  Invoke(Invoke(calls, shopifyOrderId, "createTransaction"),
         shopifyOrderId, "updateOrderFinancialStatus")

\* What a ShopifyClient method returns: { success: true } or, from its catch
\* clause, { success: false }.
ShopifyResults == {"success", "failure"}

\* The orders with a failed order-update call, after calls with these results
\* were made for shopifyOrderId.
OrderUpdateOutcome(failed, shopifyOrderId, results) ==
  IF "failure" \in results THEN failed \cup {shopifyOrderId} ELSE failed

(***************************************************************************)
(* The webhook signature.  The HMAC is a function of key and body that     *)
(* differs when either differs; the header carries its hex digest.         *)
(* crypto.timingSafeEqual throws when the two buffers differ in length.    *)
(***************************************************************************)
Secret    == "WEBHOOK_SECRET"
ForgedKey == "guess"

DigestBytes == 32

Payloads == [invoice_id : 1..MaxInvoices, payment_status : PaymentStatuses]

Hmac(key, payload) == <<key, payload>>

HexSignature(key, payload, bytes) == [mac |-> Hmac(key, payload), bytes |-> bytes]

\* The body the sender signed when payload is what arrives after tampering.
Original(payload) ==
  [payload EXCEPT !.payment_status = IF @ = "PAID" THEN "PENDING" ELSE "PAID"]

\* The signature headers a request with this body can carry: none, the
\* genuine one, the genuine one of the body before it was tampered with, one
\* made with another key, and one of another length.
Signatures(payload) ==
  { NoSignature,
    HexSignature(Secret, payload, DigestBytes),
    HexSignature(Secret, Original(payload), DigestBytes),
    HexSignature(ForgedKey, payload, DigestBytes),
    HexSignature(Secret, payload, DigestBytes \div 2) }

Genuine(payload, signature) == signature = HexSignature(Secret, payload, DigestBytes)

\* The comparison inside the try block of verifyQPaySignature: the catch
\* clause answers the RangeError like a mismatch.
verifyQPaySignature(payload, signature) ==
  IF signature.bytes = DigestBytes /\ signature.mac = Hmac(Secret, payload)
  THEN "valid" ELSE "invalid"

\* QPayClient.verifyWebhookSignature: true, false, or the RangeError of
\* timingSafeEqual.
verifyWebhookSignature(payload, signature) ==
  IF signature.bytes # DigestBytes THEN "throws"
  ELSE IF signature.mac = Hmac(Secret, payload) THEN "valid" ELSE "invalid"

(***************************************************************************)
(* The request a slot serves, and the response it is given.                *)
(***************************************************************************)
Arrive(kind, orderId, invoiceId, paymentStatus, signature) ==
  [kind |-> kind, orderId |-> orderId, invoiceId |-> invoiceId,
   paymentStatus |-> paymentStatus, signature |-> signature, amount |-> 0]

\* !value of a number: zero, and a field the body does not hold.
Falsy(value) == value = 0

\* The handler of request a awaits the call named by label, holding the row
\* it has read.
Run(a, label, found) ==
  [kind |-> a.kind, pc |-> label, orderId |-> a.orderId,
   invoiceId |-> a.invoiceId, paymentStatus |-> a.paymentStatus,
   found |-> found]

\* res.status(code).json({ message, data: { invoiceId, status } })
Answer(r, code, message, invoiceId, status) ==
  [kind |-> r.kind, orderId |-> r.orderId, invoiceId |-> r.invoiceId,
   paymentStatus |-> r.paymentStatus, code |-> code, message |-> message,
   dataInvoiceId |-> invoiceId, dataStatus |-> status]

\* A free slot takes the request a.
Receive(s, a) ==
  /\ request[s] = IdleRequest
  /\ arrival' = a

\* A handler that is running goes on.
Resume(s, kind, label) ==
  /\ request[s].kind = kind
  /\ request[s].pc = label
  /\ arrival' = NoArrival

\* The handler returns: the response is sent and the slot is free.
Finish(s, res) ==
  /\ request' = [request EXCEPT ![s] = IdleRequest]
  /\ response' = res

\* The handler awaits its next call.
Await(s, r) ==
  /\ request' = [request EXCEPT ![s] = r]
  /\ response' = NoResponse

(***************************************************************************)
(* api/create-invoice.                                                     *)
(***************************************************************************)
\* Validation and the look-up of a record of the order.
CreateInvoiceReceive(s, orderId, amount) ==
  /\ LET r == [Arrive("create-invoice", orderId, Null, "none", NoSignature)
                 EXCEPT !.amount = amount]
         existingPayment == getOrderPaymentByShopifyId(orderPayment, orderId)
     IN  /\ Receive(s, r)
         /\ IF Falsy(orderId) \/ Falsy(amount)
            THEN Finish(s, Answer(r, 400, "Missing required fields", Null, "none"))
            ELSE IF existingPayment # NoRow
            THEN Finish(s, Answer(r, 200, "Invoice already exists",
                                  existingPayment.qpayInvoiceId,
                                  existingPayment.status))
            ELSE Await(s, Run(r, "createInvoice", NoRow))
  /\ UNCHANGED <<orderPayment, gatewayInvoices, shopifyCalls,
                 secretConfigured,
                 orderUpdateFailed, tokenVars, invoiceCall, limiterVars, page>>

\* shopify.getOrder, then qpay.createInvoice: the invoice exists at the
\* gateway when createInvoice returns success.
CreateInvoiceGateway(s) ==
  /\ Resume(s, "create-invoice", "createInvoice")
  /\ \/ /\ Finish(s, Answer(request[s], 404, "Order not found in Shopify",
                            Null, "none"))
        /\ UNCHANGED gatewayInvoices
     \/ /\ Finish(s, Answer(request[s], 500, "Failed to create QPay invoice",
                            Null, "none"))
        /\ UNCHANGED gatewayInvoices
     \/ /\ gatewayInvoices < MaxInvoices
        /\ gatewayInvoices' = gatewayInvoices + 1
        /\ Await(s, [request[s] EXCEPT !.pc = "createOrderPayment",
                                        !.invoiceId = gatewayInvoices + 1])
  /\ UNCHANGED <<orderPayment, shopifyCalls, secretConfigured,
                 orderUpdateFailed, tokenVars, invoiceCall, limiterVars, page>>

\* db.createOrderPayment, whose failure is logged and passed over, the order
\* note, and the response with the new invoice.
CreateInvoiceSave(s) ==
  /\ Resume(s, "create-invoice", "createOrderPayment")
  /\ orderPayment' = createOrderPayment(orderPayment, request[s].orderId,
                                        request[s].invoiceId)
  /\ Finish(s, Answer(request[s], 200, "", request[s].invoiceId, "none"))
  /\ UNCHANGED <<gatewayInvoices, shopifyCalls, secretConfigured,
                 orderUpdateFailed, tokenVars, invoiceCall, limiterVars, page>>

(***************************************************************************)
(* POST /webhooks/shopify/orders/create of server.js.  The handler does    *)
(* not look for a record of the order and does not test the result of      *)
(* createInvoice; it reads invoice.invoice_id, which createInvoice does    *)
(* not return, so the row is created without invoice id.  It always        *)
(* answers 200.                                                            *)
(***************************************************************************)
ShopifyOrderCreated(orderId) ==
  /\ \/ UNCHANGED gatewayInvoices
     \/ /\ gatewayInvoices < MaxInvoices
        /\ gatewayInvoices' = gatewayInvoices + 1
  /\ orderPayment' = createOrderPayment(orderPayment, orderId, Null)
  /\ arrival' = Arrive("orders/create", orderId, Null, "none", NoSignature)
  /\ response' = Answer(arrival', 200, "", Null, "none")
  /\ UNCHANGED <<shopifyCalls, request, secretConfigured,
                 orderUpdateFailed, tokenVars, invoiceCall, limiterVars, page>>

(***************************************************************************)
(* api/webhook.                                                            *)
(***************************************************************************)
\* The signature is verified only when the header is present and the secret
\* is set; then the record of the invoice is read.
WebhookReceive(s, payload, signature) ==
  /\ LET r == Arrive("webhook", Null, payload.invoice_id,
                     payload.payment_status, signature)
         isValid == IF signature # NoSignature /\ secretConfigured
                    THEN verifyWebhookSignature(payload, signature)
                    ELSE "valid"
         found == getOrderPaymentByInvoiceId(orderPayment, payload.invoice_id)
     IN  /\ Receive(s, r)
         /\ IF isValid = "invalid"
            THEN Finish(s, Answer(r, 401, "Invalid signature", Null, "none"))
            ELSE IF isValid = "throws"
            THEN Finish(s, Answer(r, 500, "Internal server error", Null, "none"))
            ELSE IF found = NoRow
            THEN Finish(s, Answer(r, 404, "Order payment not found", Null, "none"))
            ELSE IF found.status = "paid"
            THEN Finish(s, Answer(r, 200, "Payment already processed",
                                  Null, "none"))
            ELSE IF payload.payment_status = "PAID"
            THEN Await(s, Run(r, "updatePaid", found))
            ELSE IF payload.payment_status = "FAILED"
            THEN Await(s, Run(r, "updateFailed", found))
            ELSE Finish(s, Answer(r, 200, "Webhook received but no action taken",
                                  Null, "none"))
  /\ UNCHANGED <<orderPayment, gatewayInvoices, shopifyCalls,
                 secretConfigured,
                 orderUpdateFailed, tokenVars, invoiceCall, limiterVars, page>>

\* db.updatePaymentStatus(invoiceId, 'paid'), then the Shopify transaction,
\* the financial status and the note.  A failed createTransaction is passed
\* over; a failed updateOrderFinancialStatus is answered 500.
WebhookPaid(s) ==
  /\ Resume(s, "webhook", "updatePaid")
  /\ shopifyCalls[request[s].found.shopifyOrderId].createTransaction < MaxCalls
  /\ orderPayment' = updatePaymentStatus(orderPayment, request[s].invoiceId,
                                         "paid", PaymentId, now)
  /\ IF getOrderPaymentByInvoiceId(orderPayment, request[s].invoiceId) = NoRow
     THEN /\ Finish(s, Answer(request[s], 500,
                              "Failed to update payment status", Null, "none"))
          /\ UNCHANGED <<shopifyCalls, orderUpdateFailed>>
     ELSE /\ shopifyCalls' =
               UpdateShopifyOrder(shopifyCalls, request[s].found.shopifyOrderId)
          /\ \E transactionResult, orderUpdateResult \in ShopifyResults :
               /\ orderUpdateFailed' =
                    OrderUpdateOutcome(orderUpdateFailed,
                       request[s].found.shopifyOrderId,
                       {transactionResult, orderUpdateResult})
               /\ IF orderUpdateResult = "success"
                  THEN Finish(s, Answer(request[s], 200,
                                        "Payment processed successfully",
                                        request[s].invoiceId, "paid"))
                  ELSE Finish(s, Answer(request[s], 500,
                         "Payment processed but failed to update Shopify order",
                         Null, "none"))
  /\ UNCHANGED <<gatewayInvoices, secretConfigured, tokenVars,
                 invoiceCall, limiterVars, page>>

\* db.updatePaymentStatus(invoiceId, 'failed'), whose result is not tested,
\* and the note.
WebhookFailed(s) ==
  /\ Resume(s, "webhook", "updateFailed")
  /\ orderPayment' = updatePaymentStatus(orderPayment, request[s].invoiceId,
                                         "failed", Null, now)
  /\ Finish(s, Answer(request[s], 200, "Payment failed",
                      request[s].invoiceId, "failed"))
  /\ UNCHANGED <<gatewayInvoices, shopifyCalls, secretConfigured,
                 orderUpdateFailed, tokenVars, invoiceCall, limiterVars, page>>

(***************************************************************************)
(* api/order-status.                                                       *)
(***************************************************************************)
\* The record is read by invoice id when one is given, else by order id; a
\* paid or failed record is answered from the store.
OrderStatusReceive(s, orderId, invoiceId) ==
  /\ LET r == Arrive("order-status", orderId, invoiceId, "none", NoSignature)
         found == IF invoiceId # Null
                  THEN getOrderPaymentByInvoiceId(orderPayment, invoiceId)
                  ELSE getOrderPaymentByShopifyId(orderPayment, orderId)
     IN  /\ Receive(s, r)
         /\ IF orderId = Null /\ invoiceId = Null
            THEN Finish(s, Answer(r, 400, "Either orderId or invoiceId is required",
                                  Null, "none"))
            ELSE IF found = NoRow
            THEN Finish(s, Answer(r, 404, "Payment record not found", Null, "none"))
            ELSE IF found.status \in {"paid", "failed"}
            THEN Finish(s, Answer(r, 200, "", found.qpayInvoiceId, found.status))
            ELSE Await(s, Run(r, "checkInvoiceStatus", found))
  /\ UNCHANGED <<orderPayment, gatewayInvoices, shopifyCalls,
                 secretConfigured,
                 orderUpdateFailed, tokenVars, invoiceCall, limiterVars, page>>

\* qpay.checkInvoiceStatus answers, or fails ("unavailable"); on PAID the
\* record is updated; on FAILED the record is updated and 'failed' is
\* reported whatever the update did; otherwise the status as read is
\* reported.
OrderStatusCheck(s) ==
  /\ Resume(s, "order-status", "checkInvoiceStatus")
  /\ LET found == request[s].found
         stored == getOrderPaymentByInvoiceId(orderPayment, found.qpayInvoiceId)
     IN  \E qpayStatus \in PaymentStatuses \cup {"unavailable"} :
           CASE qpayStatus = "PAID" ->
                  /\ orderPayment' = updatePaymentStatus(orderPayment,
                        found.qpayInvoiceId, "paid", PaymentId, now)
                  /\ IF stored # NoRow
                     THEN Await(s, [request[s] EXCEPT !.pc = "createTransaction"])
                     ELSE Finish(s, Answer(request[s], 200, "",
                                    found.qpayInvoiceId, found.status))
             [] qpayStatus = "FAILED" ->
                  /\ orderPayment' = updatePaymentStatus(orderPayment,
                        found.qpayInvoiceId, "failed", Null, now)
                  /\ Finish(s, Answer(request[s], 200, "", found.qpayInvoiceId,
                                      "failed"))
             [] OTHER ->
                  /\ Finish(s, Answer(request[s], 200, "", found.qpayInvoiceId,
                                      found.status))
                  /\ UNCHANGED orderPayment
  /\ UNCHANGED <<gatewayInvoices, shopifyCalls, secretConfigured,
                 orderUpdateFailed, tokenVars, invoiceCall, limiterVars, page>>

\* After a successful update to 'paid': the Shopify transaction, financial
\* status and note, whose results are not tested, and the answer, whose
\* status is the handler's updatedStatus.
OrderStatusPaid(s) ==
  /\ Resume(s, "order-status", "createTransaction")
  /\ LET found == request[s].found
     IN  /\ shopifyCalls[found.shopifyOrderId].createTransaction < MaxCalls
         /\ shopifyCalls' = UpdateShopifyOrder(shopifyCalls, found.shopifyOrderId)
         /\ \E results \in SUBSET ShopifyResults :
              /\ results # {}
              /\ orderUpdateFailed' =
                   OrderUpdateOutcome(orderUpdateFailed, found.shopifyOrderId,
                                      results)
         /\ Finish(s, Answer(request[s], 200, "", found.qpayInvoiceId, "paid"))
  /\ UNCHANGED <<orderPayment, gatewayInvoices, secretConfigured, tokenVars,
                 invoiceCall, limiterVars, page>>

\* new Date() advances.  The handlers read the clock only to stamp paidAt, so
\* the clock is moved only past an instant that a record is stamped with.
ApiTick ==
  /\ now < MaxDate
  /\ \E r \in orderPayment : r.paidAt = now
  /\ now' = now + 1
  /\ arrival' = NoArrival
  /\ response' = NoResponse
  /\ UNCHANGED <<clientVars, orderPayment, gatewayInvoices, shopifyCalls,
                 request, secretConfigured, orderUpdateFailed,
                 invoiceCall, limiterVars, page>>

ApiInit ==
  /\ ClientInit
  /\ now = 1
  /\ ApiQuiet
  /\ secretConfigured \in BOOLEAN

ApiNext ==
  \/ \E s \in Slots, orderId \in Orders \cup {Null}, amount \in Amounts :
       CreateInvoiceReceive(s, orderId, amount)
  \/ \E s \in Slots : CreateInvoiceGateway(s)
  \/ \E s \in Slots : CreateInvoiceSave(s)
  \/ \E orderId \in Orders : ShopifyOrderCreated(orderId)
  \/ \E s \in Slots, payload \in Payloads :
       \E signature \in Signatures(payload) :
         WebhookReceive(s, payload, signature)
  \/ \E s \in Slots : WebhookPaid(s)
  \/ \E s \in Slots : WebhookFailed(s)
  \/ \E s \in Slots, orderId \in Orders \cup {Null},
        invoiceId \in 0..MaxInvoices :
       OrderStatusReceive(s, orderId, invoiceId)
  \/ \E s \in Slots : OrderStatusCheck(s)
  \/ \E s \in Slots : OrderStatusPaid(s)
  \/ ApiTick

SpecApi == ApiInit /\ [][ApiNext]_vars

(***************************************************************************)
(* Part III.  The Express routes of server.js, and the check-payment       *)
(* handler of the Next.js pages.  The dbClient of server.js is called      *)
(* with getPaymentByOrderId, getPaymentByInvoiceId and updateOrderPayment, *)
(* which the DatabaseClient of the sources does not define; they are the   *)
(* row-store operations getByOrderId, getByInvoiceId and the update of one *)
(* row of the specification's store interface.                             *)
(***************************************************************************)
getPaymentByOrderId(table, orderId) ==
  IF \E r \in table : r.shopifyOrderId = orderId
  THEN CHOOSE r \in table : r.shopifyOrderId = orderId
  ELSE NoRow

getPaymentByInvoiceId(table, invoice_id) ==
  IF invoice_id # Null /\ \E r \in table : r.qpayInvoiceId = invoice_id
  THEN CHOOSE r \in table : r.qpayInvoiceId = invoice_id
  ELSE NoRow

\* updateData of the route: { status, paidAt, qpayTransactionId }.
updateOrderPayment(table, id, status, paidAt, qpayTransactionId) ==
  {IF r.id = id
   THEN [r EXCEPT !.status = status, !.paidAt = paidAt,
                  !.transactionId = qpayTransactionId]
   ELSE r : r \in table}

\* POST /api/create-invoice: validation and the look-up of a record.
ServerCreateInvoiceReceive(s, orderId, amount) ==
  /\ LET r == [Arrive("create-invoice", orderId, Null, "none", NoSignature)
                 EXCEPT !.amount = amount]
         existingPayment == getPaymentByOrderId(orderPayment, orderId)
     IN  /\ Receive(s, r)
         /\ IF Falsy(orderId) \/ Falsy(amount)
            THEN Finish(s, Answer(r, 400, "Missing required fields", Null, "none"))
            ELSE IF existingPayment # NoRow /\ existingPayment.status # "FAILED"
            THEN Finish(s, Answer(r, 200, "Invoice already exists",
                                  existingPayment.qpayInvoiceId,
                                  existingPayment.status))
            ELSE Await(s, Run(r, "createInvoice", NoRow))
  /\ UNCHANGED <<orderPayment, gatewayInvoices, shopifyCalls,
                 secretConfigured,
                 orderUpdateFailed, tokenVars, invoiceCall, limiterVars, page>>

\* shopifyClient.getOrder, whose failure is passed over, then
\* qpayClient.createInvoice, whose failure is thrown and answered 500.
ServerCreateInvoiceGateway(s) ==
  /\ Resume(s, "create-invoice", "createInvoice")
  /\ \/ /\ Finish(s, Answer(request[s], 500, "QPay API error", Null, "none"))
        /\ UNCHANGED gatewayInvoices
     \/ /\ gatewayInvoices < MaxInvoices
        /\ gatewayInvoices' = gatewayInvoices + 1
        /\ Await(s, [request[s] EXCEPT !.pc = "createOrderPayment",
                                        !.invoiceId = gatewayInvoices + 1])
  /\ UNCHANGED <<orderPayment, shopifyCalls, secretConfigured,
                 orderUpdateFailed, tokenVars, invoiceCall, limiterVars, page>>

\* dbClient.createOrderPayment, whose result is not tested, and the response.
ServerCreateInvoiceSave(s) ==
  /\ Resume(s, "create-invoice", "createOrderPayment")
  /\ orderPayment' = createOrderPayment(orderPayment, request[s].orderId,
                                        request[s].invoiceId)
  /\ Finish(s, Answer(request[s], 200, "", request[s].invoiceId, "PENDING"))
  /\ UNCHANGED <<gatewayInvoices, shopifyCalls, secretConfigured,
                 orderUpdateFailed, tokenVars, invoiceCall, limiterVars, page>>

\* POST /api/webhook: qpaySecurityMiddleware (the rate limiter admits the
\* request), then the route's own verification, taken with the same secret,
\* and the look-up of the record.
ServerWebhookReceive(s, payload, signature) ==
  /\ LET r == Arrive("webhook", Null, payload.invoice_id,
                     payload.payment_status, signature)
         isValid == IF secretConfigured
                    THEN verifyWebhookSignature(payload, signature)
                    ELSE "valid"
         paymentRecord == getPaymentByInvoiceId(orderPayment, payload.invoice_id)
     IN  /\ Receive(s, r)
         /\ IF secretConfigured /\ signature = NoSignature
            THEN Finish(s, Answer(r, 401, "Missing webhook signature",
                                  Null, "none"))
            ELSE IF secretConfigured
                    /\ verifyQPaySignature(payload, signature) = "invalid"
            THEN Finish(s, Answer(r, 401, "Invalid webhook signature",
                                  Null, "none"))
            ELSE IF isValid = "invalid"
            THEN Finish(s, Answer(r, 401, "Invalid webhook signature",
                                  Null, "none"))
            ELSE IF isValid = "throws"
            THEN Finish(s, Answer(r, 500, "Internal server error", Null, "none"))
            ELSE IF paymentRecord = NoRow
            THEN Finish(s, Answer(r, 404, "Payment record not found",
                                  Null, "none"))
            ELSE Await(s, Run(r, "updateOrderPayment", paymentRecord))
  /\ UNCHANGED <<orderPayment, gatewayInvoices, shopifyCalls,
                 secretConfigured,
                 orderUpdateFailed, tokenVars, invoiceCall, limiterVars, page>>

\* dbClient.updateOrderPayment with the status of the notification, then for
\* PAID the Shopify transaction, financial status and note, whose failure is
\* caught; the answer is 200.
ServerWebhookUpdate(s) ==
  /\ Resume(s, "webhook", "updateOrderPayment")
  /\ LET payment_status == request[s].paymentStatus
         paymentRecord == request[s].found
     IN  /\ orderPayment' = updateOrderPayment(orderPayment, paymentRecord.id,
               payment_status,
               IF payment_status = "PAID" THEN now ELSE Null, PaymentId)
         /\ IF payment_status = "PAID"
            THEN /\ shopifyCalls[paymentRecord.shopifyOrderId].createTransaction
                      < MaxCalls
                 /\ shopifyCalls' = UpdateShopifyOrder(shopifyCalls,
                                       paymentRecord.shopifyOrderId)
                 /\ \E results \in SUBSET ShopifyResults :
                      /\ results # {}
                      /\ orderUpdateFailed' =
                           OrderUpdateOutcome(orderUpdateFailed,
                              paymentRecord.shopifyOrderId, results)
            ELSE UNCHANGED <<shopifyCalls, orderUpdateFailed>>
         /\ Finish(s, Answer(request[s], 200, "Webhook processed successfully",
                             request[s].invoiceId, payment_status))
  /\ UNCHANGED <<gatewayInvoices, secretConfigured, tokenVars,
                 invoiceCall, limiterVars, page>>

\* GET /api/order-status: the record is read by order id when one is given,
\* else by invoice id; the gateway is asked only for a record whose status is
\* 'PENDING'.
ServerOrderStatusReceive(s, orderId, invoiceId) ==
  /\ LET r == Arrive("order-status", orderId, invoiceId, "none", NoSignature)
         paymentRecord == IF orderId # Null
                          THEN getPaymentByOrderId(orderPayment, orderId)
                          ELSE getPaymentByInvoiceId(orderPayment, invoiceId)
     IN  /\ Receive(s, r)
         /\ IF orderId = Null /\ invoiceId = Null
            THEN Finish(s, Answer(r, 400, "Either orderId or invoiceId is required",
                                  Null, "none"))
            ELSE IF paymentRecord = NoRow
            THEN Finish(s, Answer(r, 404, "Payment record not found", Null, "none"))
            ELSE IF paymentRecord.status = "PENDING"
            THEN Await(s, Run(r, "checkInvoiceStatus", paymentRecord))
            ELSE Finish(s, Answer(r, 200, "", paymentRecord.qpayInvoiceId,
                                  paymentRecord.status))
  /\ UNCHANGED <<orderPayment, gatewayInvoices, shopifyCalls, secretConfigured,
                 orderUpdateFailed, tokenVars, invoiceCall, limiterVars, page>>

\* qpayClient.checkInvoiceStatus answers, or fails ("unavailable"); on PAID
\* dbClient.updateOrderPayment is called, otherwise the record as read is
\* answered.
ServerOrderStatusCheck(s) ==
  /\ Resume(s, "order-status", "checkInvoiceStatus")
  /\ LET paymentRecord == request[s].found
     IN  \E qpayStatus \in PaymentStatuses \cup {"unavailable"} :
           IF qpayStatus = "PAID"
           THEN /\ orderPayment' = updateOrderPayment(orderPayment,
                       paymentRecord.id, "PAID", now, PaymentId)
                /\ Await(s, [request[s] EXCEPT !.pc = "createTransaction"])
           ELSE /\ Finish(s, Answer(request[s], 200, "",
                          paymentRecord.qpayInvoiceId, paymentRecord.status))
                /\ UNCHANGED orderPayment
  /\ UNCHANGED <<gatewayInvoices, shopifyCalls, secretConfigured,
                 orderUpdateFailed, tokenVars, invoiceCall, limiterVars, page>>

\* After the update: the Shopify transaction and financial status, whose
\* failure is caught, and the answer, which says 'PAID' from the handler's own
\* copy of the record.
ServerOrderStatusPaid(s) ==
  /\ Resume(s, "order-status", "createTransaction")
  /\ LET paymentRecord == request[s].found
     IN  /\ shopifyCalls[paymentRecord.shopifyOrderId].createTransaction
              < MaxCalls
         /\ shopifyCalls' = UpdateShopifyOrder(shopifyCalls,
                               paymentRecord.shopifyOrderId)
         /\ \E results \in SUBSET ShopifyResults :
              /\ results # {}
              /\ orderUpdateFailed' =
                   OrderUpdateOutcome(orderUpdateFailed,
                      paymentRecord.shopifyOrderId, results)
         /\ Finish(s, Answer(request[s], 200, "", paymentRecord.qpayInvoiceId,
                             "PAID"))
  /\ UNCHANGED <<orderPayment, gatewayInvoices, secretConfigured, tokenVars,
                 invoiceCall, limiterVars, page>>

(***************************************************************************)
(* pages/api/qpay check-payment: the gateway is asked for the payments of   *)
(* the invoice and paid is answered when one of them is PAID.  The handler  *)
(* reads and writes no record.                                             *)
(***************************************************************************)
CheckPayment(invoice_id) ==
  /\ arrival' = Arrive("check-payment", Null, invoice_id, "none", NoSignature)
  /\ \E result \in PaymentStatuses \cup {"unavailable"} :
       response' =
         IF invoice_id = Null
         THEN Answer(arrival', 400, "Missing required parameter: invoice_id",
                     Null, "none")
         ELSE IF result = "unavailable"
         THEN Answer(arrival', 400, "", Null, "none")
         ELSE Answer(arrival', 200, "", invoice_id,
                     IF result = "PAID" THEN "PAID" ELSE "none")
  /\ UNCHANGED <<orderPayment, gatewayInvoices, shopifyCalls, request,
                 secretConfigured, orderUpdateFailed, tokenVars,
                 invoiceCall, limiterVars, page>>

ServerInit == ApiInit

ServerNext ==
  \/ \E s \in Slots, orderId \in Orders \cup {Null}, amount \in Amounts :
       ServerCreateInvoiceReceive(s, orderId, amount)
  \/ \E s \in Slots : ServerCreateInvoiceGateway(s)
  \/ \E s \in Slots : ServerCreateInvoiceSave(s)
  \/ \E s \in Slots, payload \in Payloads :
       \E signature \in Signatures(payload) :
         ServerWebhookReceive(s, payload, signature)
  \/ \E s \in Slots : ServerWebhookUpdate(s)
  \/ \E s \in Slots, orderId \in Orders \cup {Null},
        invoiceId \in 0..MaxInvoices :
       ServerOrderStatusReceive(s, orderId, invoiceId)
  \/ \E s \in Slots : ServerOrderStatusCheck(s)
  \/ \E s \in Slots : ServerOrderStatusPaid(s)
  \/ \E invoice_id \in 0..MaxInvoices : CheckPayment(invoice_id)
  \/ ApiTick

SpecServer == ServerInit /\ [][ServerNext]_vars

(***************************************************************************)
(* Claims about the serverless handlers (SpecApi).                         *)
(***************************************************************************)

\* The request that arrives in this step is answered in this step, before
\* its handler awaits anything.
AnsweredAtOnce ==
  /\ arrival' # NoArrival
  /\ response' # NoResponse

\* The signature x carries is not the genuine signature of its body.
Forged(x) ==
  /\ x.signature # NoSignature
  /\ ~Genuine([invoice_id |-> x.invoiceId, payment_status |-> x.paymentStatus],
              x.signature)

\* The statuses a record does not leave, as the handlers of Part II and as
\* the route of Part III write them.
TerminalStatuses == {"paid", "failed", "PAID", "FAILED"}

\* C2: a notification or status poll whose handler reads a record that is
\* already paid or failed leaves the stored records as they are, and a
\* notification that repeats the record's own terminal status is answered
\* with success.
C2_TerminalRecordFrozen ==
  [][/\ \A s \in Slots :
          ( /\ request[s].found.status \in TerminalStatuses
            /\ request'[s] = IdleRequest )
          => orderPayment' = orderPayment
     /\ \A r \in orderPayment :
          ( /\ r.status \in TerminalStatuses
            /\ arrival'.kind = "webhook"
            /\ arrival'.invoiceId = r.qpayInvoiceId
            /\ arrival'.paymentStatus \in {"PAID", "FAILED"}
            /\ ~Forged(arrival')
            /\ AnsweredAtOnce )
          => ( /\ response'.code = 200
               /\ orderPayment' = orderPayment )]_vars

C5_OrderUpdateOnce ==
  [][\A o \in Orders :
       shopifyCalls'[o] # shopifyCalls[o] =>
         getOrderPaymentByShopifyId(orderPayment, o).status # "paid"]_vars

\* C7: with the secret set, a notification whose body or signature was
\* tampered with is answered 401 and no record changes.
C7_ForgedNotificationRejected ==
  [][( /\ secretConfigured
       /\ arrival'.kind = "webhook"
       /\ Forged(arrival') )
     => ( /\ AnsweredAtOnce
          /\ response'.code = 401
          /\ orderPayment' = orderPayment )]_vars

\* C13: every notification that the signature check does not reject is
\* answered with success, also when its invoice id matches no record.
C13_AcknowledgedUnlessSignature ==
  [][( /\ response'.kind = "webhook"
       /\ ~(secretConfigured /\ Forged(arrival')) )
     => response'.code = 200]_vars

\* C15: when the record was moved to paid and a Shopify order-update call
\* that followed failed, the webhook handler answers the notification with
\* success.
C15_DownstreamFailureNotReturned ==
  [][\A s \in Slots :
       ( /\ request[s].kind = "webhook"
         /\ request'[s] = IdleRequest
         /\ orderUpdateFailed' # orderUpdateFailed )
       => response'.code = 200]_vars

\* The record r is the one a status check with the query of request a reads:
\* by invoice id when one is given, else by order id.
Reads(a, r) ==
  IF a.invoiceId # Null
  THEN a.invoiceId = r.qpayInvoiceId
  ELSE a.orderId = r.shopifyOrderId

\* C17: a status check that reads a paid or failed record is answered from
\* the store at once, without a request to the gateway, and the record keeps
\* the status the check reported, so that a later check reports it again.
C17_TerminalCheckFromStore ==
  [][/\ \A r \in orderPayment :
          ( /\ r.status \in TerminalStatuses
            /\ arrival'.kind = "order-status"
            /\ Reads(arrival', r) )
          => ( /\ AnsweredAtOnce
               /\ response'.code = 200
               /\ response'.dataStatus = r.status
               /\ orderPayment' = orderPayment )
     /\ \A r \in orderPayment :
          ( /\ r.status \in TerminalStatuses
            /\ arrival.kind = "order-status"
            /\ response.kind = "order-status"
            /\ response.code = 200
            /\ response.dataInvoiceId = r.qpayInvoiceId
            /\ response.dataStatus = r.status )
          => \E q \in orderPayment' :
               q.id = r.id /\ q.status = r.status]_vars

\* An amount that is a positive whole number of tugrik.
IsPositiveInteger(amount) == amount > 0 /\ amount % 2 = 0

\* C20: a create-invoice request whose amount is zero, negative or not a
\* positive integer is answered 400 in the step that receives it: the
\* handler awaits no call (no authenticate, no gateway invoice, no Shopify
\* call), and no record is created.
C20_InvalidAmountRejected ==
  [][( /\ arrival'.kind = "create-invoice"
       /\ ~IsPositiveInteger(arrival'.amount) )
     => ( /\ response'.code = 400
          /\ request' = request
          /\ orderPayment' = orderPayment
          /\ gatewayInvoices' = gatewayInvoices
          /\ shopifyCalls' = shopifyCalls )]_vars

\* C21: a step in which the gateway invoice call of an entry point fails
\* (no invoice is created at the gateway) creates no record: the Shopify
\* order-created webhook stores nothing, and create-invoice answers an error
\* and stores nothing.
C21_NoRecordOnGatewayFailure ==
  [][/\ ( /\ arrival'.kind = "orders/create"
          /\ gatewayInvoices' = gatewayInvoices )
        => orderPayment' = orderPayment
     /\ \A s \in Slots :
          ( /\ request[s].kind = "create-invoice"
            /\ request[s].pc = "createInvoice"
            /\ request'[s] # request[s]
            /\ gatewayInvoices' = gatewayInvoices )
          => ( /\ request'[s] = IdleRequest
               /\ response'.code >= 400
               /\ orderPayment' = orderPayment )]_vars

\* The statuses of a failed record: the serverless handlers write 'failed',
\* the route of Part III writes 'FAILED'.
FailedStatuses == {"failed", "FAILED"}

\* C23: a create-invoice request that passes validation is answered at once
\* with the existing invoice, without a gateway call, exactly when the store
\* holds a record of the order that is not failed; in every other case, that
\* of a failed record included, the handler goes on to create an invoice.
C23_ExistingReturnedUnlessFailed ==
  [][( /\ arrival'.kind = "create-invoice"
       /\ ~Falsy(arrival'.orderId)
       /\ ~Falsy(arrival'.amount) )
     => IF \E r \in orderPayment : /\ r.shopifyOrderId = arrival'.orderId
                                   /\ r.status \notin FailedStatuses
        THEN /\ AnsweredAtOnce
             /\ response'.code = 200
             /\ response'.message = "Invoice already exists"
             /\ gatewayInvoices' = gatewayInvoices
        ELSE \E s \in Slots : /\ request[s] = IdleRequest
                              /\ request'[s].kind = "create-invoice"
                              /\ request'[s].pc = "createInvoice"]_vars

(***************************************************************************)
(* Claims about POST /api/webhook of server.js (SpecServer).               *)
(***************************************************************************)
PaidStatuses == {"paid", "PAID"}

C14_PaidKeptAfterShopifyFailure ==
  \A o \in orderUpdateFailed :
    \E r \in orderPayment :
      /\ r.shopifyOrderId = o
      /\ r.status \in PaidStatuses
      /\ r.paidAt # Null
      /\ r.transactionId # Null


\* C16: in every record the paid timestamp is set if and only if the status
\* is paid.
C16_PaidAtIffPaid ==
  \A r \in orderPayment : (r.paidAt # Null) <=> (r.status \in PaidStatuses)


\* C18: whenever the response of a status check says paid, the stored record
\* has status paid.
C18_PaidReportedOnlyWhenStored ==
  ( /\ response.kind \in {"order-status", "check-payment"}
    /\ response.dataStatus \in PaidStatuses )
  => \E r \in orderPayment :
       /\ r.qpayInvoiceId = response.dataInvoiceId
       /\ r.status \in PaidStatuses


(***************************************************************************)
(* Part IV.  The operations that create an invoice from the data of their  *)
(* caller: QPayClient.createInvoice of lib/qpay.js, and the route POST /   *)
(* of api-old/qpay/token.ts.  What is recorded is what the operation was   *)
(* given, whether it asked the gateway, and with which invoice; how        *)
(* makeAuthenticatedRequest asks the gateway is Part I.                    *)
(***************************************************************************)
\* item.quantity and item.price of a line item; the price is counted in
\* halves as every amount is.
LineItem == [quantity : 0..MaxQuantity, price : 0..MaxPrice]

\* orderData.lineItems when the caller supplies them.
LineItems == UNION {[1..n -> LineItem] : n \in 0..MaxItems}

\* Math.round(value * 100).toString(): hundredths, of a value in halves.
Hundredths(value) == 50 * value

\* Math.round(amount), in halves: the nearest integer, a half rounded up.
Round(amount) == 2 * ((amount + 1) \div 2)

\* lines: orderData.lineItems?.map(...) || [the order as one line]
Lines(amount, supplied, lineItems) ==
  IF supplied
  THEN [i \in 1..Len(lineItems) |->
          [line_quantity   |-> IF Falsy(lineItems[i].quantity)
                               THEN 1 ELSE lineItems[i].quantity,
           line_unit_price |-> Hundredths(lineItems[i].price)]]
  ELSE <<[line_quantity |-> 1, line_unit_price |-> Hundredths(amount)]>>

\* QPayClient.createInvoice(orderData): the invoice is built from the order
\* data as they are and handed to makeAuthenticatedRequest, whose failure is
\* returned as { success: false }.
createInvoice(amount, supplied, lineItems) ==
  /\ \E success \in BOOLEAN :
       invoiceCall' = [op |-> "createInvoice", orderId |-> Null,
                       amount |-> amount, supplied |-> supplied,
                       lineItems |-> lineItems, requested |-> TRUE,
                       payloadAmount |-> amount,
                       payloadLines |-> Lines(amount, supplied, lineItems),
                       success |-> success, code |-> Null]
  /\ UNCHANGED <<tokenVars, apiVars, limiterVars, page>>

\* POST / of api-old/qpay/token.ts with a complete configuration and a
\* number as amount: the validation, the mock invoice of the test mode, and
\* QPayService.createInvoice with the rounded amount.
InvoicePost(orderId, amount, isTestMode) ==
  /\ LET call == [NoInvoiceCall EXCEPT !.op = "invoice.post",
                                       !.orderId = orderId,
                                       !.amount = amount]
     IN  IF Falsy(orderId) \/ Falsy(amount)
         THEN invoiceCall' = [call EXCEPT !.code = 400]
         ELSE IF amount <= 0
         THEN invoiceCall' = [call EXCEPT !.code = 400]
         ELSE IF isTestMode
         THEN invoiceCall' = [call EXCEPT !.payloadAmount = Round(amount),
                                          !.success = TRUE, !.code = 200]
         ELSE \E success \in BOOLEAN :
                invoiceCall' = [call EXCEPT !.requested = TRUE,
                                            !.payloadAmount = Round(amount),
                                            !.success = success,
                                            !.code = IF success THEN 200
                                                     ELSE 500]
  /\ UNCHANGED <<tokenVars, apiVars, limiterVars, page>>

InvoiceInit == Init

InvoiceNext ==
  \/ \E amount \in Amounts, supplied \in BOOLEAN :
       \E lineItems \in IF supplied THEN LineItems ELSE {<<>>} :
         createInvoice(amount, supplied, lineItems)
  \/ \E orderId \in Orders \cup {Null}, amount \in Amounts,
        isTestMode \in BOOLEAN :
       InvoicePost(orderId, amount, isTestMode)

SpecInvoice == InvoiceInit /\ [][InvoiceNext]_vars

(***************************************************************************)
(* Claims about the invoice-creating operations (SpecInvoice).             *)
(***************************************************************************)
\* Sum of quantity times unit price over the line items.
RECURSIVE Total(_)
Total(lineItems) ==
  IF lineItems = <<>>
  THEN 0
  ELSE Head(lineItems).quantity * Head(lineItems).price
         + Total(Tail(lineItems))

\* C19: createInvoice given line items whose quantity times unit price do
\* not sum to the amount returns a failure and asks nothing of the gateway.
C19_MismatchRejected ==
  ( /\ invoiceCall.op = "createInvoice"
    /\ invoiceCall.supplied
    /\ Total(invoiceCall.lineItems) # invoiceCall.amount )
  => ( ~invoiceCall.requested /\ ~invoiceCall.success )

\* C28: createInvoice called without line items sends exactly one line, of
\* quantity 1, whose unit price is the invoice amount.  The unit price is a
\* whole number, so counted in halves it is twice itself.
C28_SyntheticLine ==
  ( /\ invoiceCall.op = "createInvoice"
    /\ invoiceCall.requested
    /\ Len(invoiceCall.lineItems) = 0 )
  => /\ Len(invoiceCall.payloadLines) = 1
     /\ invoiceCall.payloadLines[1].line_quantity = 1
     /\ 2 * invoiceCall.payloadLines[1].line_unit_price
          = invoiceCall.payloadAmount

\* C22: whenever create-invoice answers success with an invoice id, the store
\* holds a record of the order with that invoice id, and the record is
\* pending when the invoice was newly created.
C22_SuccessHasRecord ==
  ( /\ response.kind = "create-invoice"
    /\ response.code = 200
    /\ response.dataInvoiceId # Null )
  => \E r \in orderPayment :
       /\ r.shopifyOrderId = response.orderId
       /\ r.qpayInvoiceId = response.dataInvoiceId
       /\ response.message # "Invoice already exists" => r.status = "pending"

(***************************************************************************)
(* Part V.  The rate limiter of the QPay webhook routes,                   *)
(* rateLimitQPayWebhooks of middleware/qpay-security.js.  The function is  *)
(* synchronous, so one call is one action.  webhookAttempts is the Map of  *)
(* the module: a function whose domain is the set of keys.                 *)
(***************************************************************************)
\* What getClientIP reads of a request: the first entry of x-forwarded-for,
\* x-real-ip, and the address of the socket, which a served request has.
WebhookRequest == [forwarded : Ips \cup {Null}, realIp : Ips \cup {Null},
                   remoteAddress : Ips]

\* getClientIP(req)
getClientIP(req) ==
  IF ~Falsy(req.forwarded) THEN req.forwarded
  ELSE IF ~Falsy(req.realIp) THEN req.realIp
  ELSE req.remoteAddress

\* ipAttempts.length > MAX_ATTEMPTS
LimitExceededAbove(length) == length > MAX_ATTEMPTS

\* ipAttempts.length >= MAX_ATTEMPTS
LimitExceeded(length) == length >= MAX_ATTEMPTS

\* attempts, unfiltered
RecentAll(attempts, windowStart) == attempts

\* attempts.filter(time => time > windowStart)
Recent(attempts, windowStart) ==
  LET InWindow(time) == time > windowStart
  IN  SelectSeq(attempts, InWindow)

\* The Map after "Clean old entries": every list filtered, the empty ones
\* deleted.
Cleaned(windowStart) ==
  LET kept == {ip \in DOMAIN webhookAttempts :
                 Recent(webhookAttempts[ip], windowStart) # <<>>}
  IN  [ip \in kept |-> Recent(webhookAttempts[ip], windowStart)]

\* rateLimitQPayWebhooks(req, res, next)
rateLimitQPayWebhooks(req) ==
  LET clientIP    == getClientIP(req)
      windowStart == dateNow - RATE_LIMIT_WINDOW
      cleaned     == Cleaned(windowStart)
      ipAttempts  == IF clientIP \in DOMAIN cleaned
                     THEN cleaned[clientIP] ELSE <<>>
  IN  /\ webhookRequests < MaxWebhookRequests
      /\ webhookRequests' = webhookRequests + 1
      /\ IF LimitExceeded(Len(ipAttempts))
         THEN /\ webhookAttempts' = cleaned
              /\ limiterResult' = [clientIP |-> clientIP, time |-> dateNow,
                                   next |-> FALSE, code |-> 429]
              /\ UNCHANGED admitted
         ELSE /\ webhookAttempts' =
                   [ip \in DOMAIN cleaned \cup {clientIP} |->
                      IF ip = clientIP THEN Append(ipAttempts, dateNow)
                      ELSE cleaned[ip]]
              /\ limiterResult' = [clientIP |-> clientIP, time |-> dateNow,
                                   next |-> TRUE, code |-> Null]
              /\ admitted' = [admitted EXCEPT
                                ![clientIP] = Append(@, dateNow)]
      /\ UNCHANGED <<dateNow, tokenVars, apiVars, invoiceCall, page>>

\* Date.now() of a later call is later.
DateNowAdvances ==
  /\ dateNow < MaxClock
  /\ dateNow' = dateNow + 1
  /\ UNCHANGED <<webhookAttempts, admitted, webhookRequests, limiterResult,
                 securityResult, tokenVars, apiVars, invoiceCall, page>>

LimiterInit == Init

LimiterNext ==
  \/ \E req \in WebhookRequest :
       rateLimitQPayWebhooks(req) /\ UNCHANGED securityResult
  \/ DateNowAdvances

SpecLimiter == LimiterInit /\ [][LimiterNext]_vars

(***************************************************************************)
(* qpaySecurityMiddleware: the three checks nested in one another, each    *)
(* the next() of the one before, and the route handler the next() of the   *)
(* last.  All three are synchronous, so the chain is one action.  The      *)
(* requests fall into one window of the rate limiter, whose clock is the   *)
(* matter of SpecLimiter.                                                  *)
(***************************************************************************)
\* logQPayRequest(req, res, next): logs and calls next(); Null stands for
\* next(), a number for the status the stage answers.
logQPayRequest(req) == Null

\* A verification that lets every request through.
SignatureCheckSkipped(payload, signature) == Null

\* verifyQPaySignature(req, res, next)
SignatureCheck(payload, signature) ==
  IF ~secretConfigured THEN Null
  ELSE IF signature = NoSignature THEN 401
  ELSE IF verifyQPaySignature(payload, signature) = "invalid" THEN 401
  ELSE Null

\* qpaySecurityMiddleware(req, res, next), next being the route handler.
qpaySecurityMiddleware(req, payload, signature) ==
  LET genuine == Genuine(payload, signature)
      Ran(stages, code) ==
        [stages |-> stages, code |-> code, genuine |-> genuine]
  IN  /\ logQPayRequest(req) = Null
      /\ rateLimitQPayWebhooks(req)
      /\ IF ~limiterResult'.next
         THEN securityResult' =
                Ran(<<"logQPayRequest", "rateLimitQPayWebhooks">>,
                    limiterResult'.code)
         ELSE IF SignatureCheck(payload, signature) # Null
         THEN securityResult' =
                Ran(<<"logQPayRequest", "rateLimitQPayWebhooks",
                      "verifyQPaySignature">>,
                    SignatureCheck(payload, signature))
         ELSE securityResult' =
                Ran(<<"logQPayRequest", "rateLimitQPayWebhooks",
                      "verifyQPaySignature", "handler">>, Null)

MiddlewareInit == ApiInit

\* A request comes from one of the addresses, with or without headers that
\* name another, carrying a notification and one of the signatures.
MiddlewareNext ==
  \E req \in WebhookRequest, payload \in Payloads :
    \E signature \in Signatures(payload) :
      qpaySecurityMiddleware(req, payload, signature)

SpecMiddleware == MiddlewareInit /\ [][MiddlewareNext]_vars

(***************************************************************************)
(* Claims about the rate limiter (SpecLimiter).                            *)
(***************************************************************************)
\* The requests of an IP handed to next() in the window that ends at t.
AdmittedIn(ip, t) ==
  Cardinality({i \in DOMAIN admitted[ip] :
                 /\ admitted[ip][i] > t - RATE_LIMIT_WINDOW
                 /\ admitted[ip][i] <= t})

\* C27: in every window of RATE_LIMIT_WINDOW at most MAX_ATTEMPTS requests of
\* one client IP are handed to next(); a request is answered 429, without
\* next(), exactly when MAX_ATTEMPTS requests of its own IP were admitted in
\* the window that ends with it, whatever other IPs sent.
C27_RateLimited ==
  /\ [](\A ip \in Ips, t \in 0..MaxClock : AdmittedIn(ip, t) <= MAX_ATTEMPTS)
  /\ [][ webhookRequests' # webhookRequests
         => LET result == limiterResult'
            IN  /\ result.next
                     <=> AdmittedIn(result.clientIP, dateNow) < MAX_ATTEMPTS
                /\ result.next => result.code = Null
                /\ ~result.next => result.code = 429
                /\ \A ip \in Ips \ {result.clientIP} :
                     admitted'[ip] = admitted[ip] ]_vars

\* An IP has had MAX_ATTEMPTS requests admitted in the current window and
\* one more answered 429, and the latest request, of the other IP, passed.
C27_Witness ==
  \E ip, other \in Ips :
    /\ ip # other
    /\ AdmittedIn(ip, dateNow) = MAX_ATTEMPTS
    /\ Len(admitted[ip]) = MAX_ATTEMPTS
    /\ Len(admitted[other]) = 1
    /\ webhookRequests = MAX_ATTEMPTS + 2
    /\ limiterResult.clientIP = other
    /\ limiterResult.next

\* What a stored status means: paid, failed, or still pending.
StatusMeaning(status) ==
  IF status \in PaidStatuses THEN "paid"
  ELSE IF status \in FailedStatuses THEN "failed"
  ELSE "pending"

C33_UnverifiedChangesNothing ==
  [][( /\ secretConfigured
       /\ arrival'.kind = "webhook"
       /\ ~Genuine([invoice_id |-> arrival'.invoiceId,
                    payment_status |-> arrival'.paymentStatus],
                   arrival'.signature) )
     => ( /\ arrival' # NoArrival
          /\ response' # NoResponse
          /\ response'.code >= 400
          /\ orderPayment' = orderPayment
          /\ shopifyCalls' = shopifyCalls )]_vars

\* C35: a request of an IP whose admitted requests are all at least
\* RATE_LIMIT_WINDOW old is admitted; a request answered 429 adds nothing to
\* the list of its IP; and after any call the Map holds no time outside the
\* window and no empty list.
C35_ReadmittedAfterWindow ==
  [][ webhookRequests' # webhookRequests
      => LET result      == limiterResult'
             windowStart == dateNow - RATE_LIMIT_WINDOW
         IN  /\ (\A i \in DOMAIN admitted[result.clientIP] :
                    admitted[result.clientIP][i] <= windowStart)
                  => result.next
             /\ ~result.next
                  => /\ result.clientIP \in DOMAIN webhookAttempts
                     /\ result.clientIP \in DOMAIN webhookAttempts'
                     /\ Len(webhookAttempts'[result.clientIP])
                          <= Len(webhookAttempts[result.clientIP])
                     /\ admitted' = admitted
             /\ \A ip \in DOMAIN webhookAttempts' :
                  /\ webhookAttempts'[ip] # <<>>
                  /\ \A i \in DOMAIN webhookAttempts'[ip] :
                       webhookAttempts'[ip][i] > windowStart ]_vars

\* An IP had MAX_ATTEMPTS requests admitted and then one answered 429, and a
\* window later its next request has been admitted; the Map holds that
\* request alone.
C35_Witness ==
  \E ip \in Ips :
    /\ Len(admitted[ip]) = MAX_ATTEMPTS + 1
    /\ webhookRequests = MAX_ATTEMPTS + 2
    /\ admitted[ip][MAX_ATTEMPTS] = 0
    /\ admitted[ip][MAX_ATTEMPTS + 1] = RATE_LIMIT_WINDOW
    /\ admitted[3 - ip] = <<>>
    /\ limiterResult.clientIP = ip
    /\ limiterResult.next
    /\ webhookAttempts = [i \in {ip} |-> <<RATE_LIMIT_WINDOW>>]

\* The stages of a request that reaches the route handler, in their order.
AllStages == <<"logQPayRequest", "rateLimitQPayWebhooks",
               "verifyQPaySignature", "handler">>

\* C34: the stages a request went through are the beginning of logging, rate
\* limiting, signature verification, handler, in that order; the handler ran
\* exactly when the rate limiter admitted the request and its signature was
\* genuine or no secret is configured; a request the rate limiter refused
\* stopped there with 429, and one with a bad signature stopped at the
\* verification with 401.
C34_StagesInOrder ==
  securityResult.stages # <<>>
  => /\ \E n \in 1..Len(AllStages) :
          securityResult.stages = SubSeq(AllStages, 1, n)
     /\ securityResult.stages = AllStages
          <=> ( /\ limiterResult.next
                /\ secretConfigured => securityResult.genuine )
     /\ ~limiterResult.next
          => /\ securityResult.stages = SubSeq(AllStages, 1, 2)
             /\ securityResult.code = 429
     /\ (limiterResult.next /\ secretConfigured /\ ~securityResult.genuine)
          => /\ securityResult.stages = SubSeq(AllStages, 1, 3)
             /\ securityResult.code = 401

\* A request with a genuine signature was refused by the rate limiter and
\* went no further.
C34_Witness ==
  /\ secretConfigured
  /\ securityResult.genuine
  /\ securityResult.code = 429
  /\ securityResult.stages = <<"logQPayRequest", "rateLimitQPayWebhooks">>
  /\ webhookRequests = MAX_ATTEMPTS + 1

(***************************************************************************)
(* GET /health of server.js.  The handler awaits dbClient.healthCheck()    *)
(* and then qpayClient.authenticate(); it reads no shared state between    *)
(* the two and answers from their outcomes, so the outcome of the database *)
(* check is drawn where the answer is made.                                *)
(***************************************************************************)
\* The value of health.services.qpay after the block "Check QPay": the
\* assignment follows await qpayClient.authenticate() and the catch clause is
\* entered only when authenticate() throws.
QPayHealth(result) == IF result.thrown THEN "unhealthy" ELSE "healthy"

\* allHealthy: every service is 'healthy' or 'configured'.
AllHealthy(database, qpay, shopify) ==
  \A status \in {database, qpay, shopify} :
    status \in {"healthy", "configured"}

\* res.status(allHealthy ? 200 : 503).json(health)
HealthAnswer(r, database, qpay, shopify) ==
  Answer(r, IF AllHealthy(database, qpay, shopify) THEN 200 ELSE 503,
         IF AllHealthy(database, qpay, shopify) THEN "healthy" ELSE "degraded",
         Null, qpay)

\* health.services.database: dbClient.healthCheck() returns its failure, so
\* the value is 'healthy' whenever dbClient exists, and 'unhealthy' when
\* initializeClients left it undefined.
DatabaseHealth == {"healthy", "unhealthy"}

\* health.services.shopify: 'configured' when the two variables are set.
ShopifyHealth == {"configured", "unknown"}

\* The request arrives; without QPay credentials the answer is made with
\* qpay: 'unknown', else authenticate() is awaited.
HealthReceive(s, qpayConfigured) ==
  /\ LET r == Arrive("health", Null, Null, "none", NoSignature)
     IN  /\ Receive(s, r)
         /\ IF qpayConfigured
            THEN Await(s, Run(r, "authenticate", NoRow))
            ELSE \E database \in DatabaseHealth, shopify \in ShopifyHealth :
                   Finish(s, HealthAnswer(r, database, "unknown", shopify))
  /\ UNCHANGED <<orderPayment, gatewayInvoices, shopifyCalls,
                 secretConfigured, orderUpdateFailed, tokenVars,
                 invoiceCall, limiterVars, page>>

\* The token endpoint answers: authenticate() stores the pair on success and
\* returns its result, and the handler answers.
HealthAuthenticate(s) ==
  /\ Resume(s, "health", "authenticate")
  /\ \E outcome \in AuthOutcomes :
       LET result == authenticate(outcome)
       IN  /\ IF result.success
              THEN /\ issued < MaxTokens
                   /\ \E expires_in \in 1..MaxExpiresIn :
                        /\ StoreToken(issued + 1, now + expires_in)
                        /\ lastWritten' = <<issued + 1, now + expires_in>>
                   /\ issued' = issued + 1
              ELSE UNCHANGED <<accessToken, tokenExpiry, issued, lastWritten>>
           /\ \E database \in DatabaseHealth, shopify \in ShopifyHealth :
                Finish(s, HealthAnswer(request[s], database,
                                       QPayHealth(result), shopify))
  /\ UNCHANGED <<orderPayment, gatewayInvoices, shopifyCalls,
                 secretConfigured, orderUpdateFailed, now, pc, retryCount,
                 bearer, log, startNull, lastBearer, authSinceSend,
                 invoiceCall, limiterVars, page>>

HealthInit == ApiInit

HealthNext ==
  \/ \E s \in Slots, qpayConfigured \in BOOLEAN :
       HealthReceive(s, qpayConfigured)
  \/ \E s \in Slots : HealthAuthenticate(s)

SpecHealth == HealthInit /\ [][HealthNext]_vars

\* C36: a /health answer that is 200 or that reports qpay healthy follows an
\* authenticate() that stored a token in the same step; an answer made after
\* an authenticate() that stored none reports qpay unhealthy with 503.
C36_HealthReflectsAuth ==
  [][ \A s \in Slots :
        ( /\ request[s].kind = "health"
          /\ request[s].pc = "authenticate"
          /\ request'[s] = IdleRequest )
        => /\ (response'.dataStatus = "healthy" \/ response'.code = 200)
                => issued' = issued + 1
           /\ issued' = issued
                => /\ response'.dataStatus = "unhealthy"
                   /\ response'.code = 503 ]_vars

(***************************************************************************)
(* Part VI.  components/PaymentPage.tsx.  The component's state is status, *)
(* timeLeft and invoiceId; a function made by a render reads the state of  *)
(* that render, whenever it runs.  A status check is a call of             *)
(* checkPaymentStatus together with the render it belongs to; it awaits    *)
(* its fetch or its setTimeout of 3 seconds.  The countdown, the checks,   *)
(* the customer and the gateway run side by side; one action is one        *)
(* callback of the browser.                                                *)
(***************************************************************************)
\* checkPaymentStatus as made by a render with these values of the state.
Closure(invoiceId, status, timeLeft) ==
  [phase |-> "call", invoiceId |-> invoiceId, status |-> status,
   timeLeft |-> timeLeft]

\* The render createInvoice belongs to: its dependencies are props, which do
\* not change, so useCallback keeps the function of the first render, and
\* the checkPaymentStatus it calls is the one of that render.
FirstRender ==
  Closure(PageMounted.invoiceId, PageMounted.status, PageMounted.timeLeft)

\* The render on the screen: the button's onClick.
CurrentRender == Closure(page.invoiceId, page.status, page.timeLeft)

\* checkPaymentStatus() up to its fetch: the checks it starts.
checkPaymentStatus(closure) ==
  IF Falsy(closure.invoiceId)
  THEN {}
  ELSE {[closure EXCEPT !.phase = "fetch"]}

PageOnly == UNCHANGED <<tokenVars, apiVars, invoiceCall, limiterVars>>

\* The answer to POST /api/qpay/create-invoice arrives in createInvoice.
CreateInvoiceAnswer(success) ==
  /\ ~page.left
  /\ page.creating
  /\ IF success
     THEN page' = [page EXCEPT !.creating = FALSE,
                               !.invoiceId = 1,
                               !.status = "waiting",
                               !.checks = @ \cup checkPaymentStatus(FirstRender)]
     ELSE page' = [page EXCEPT !.creating = FALSE, !.status = "error"]
  /\ PageOnly

\* The timer of the countdown effect fires: setTimeLeft(timeLeft - 1), and
\* the effect of the next render, which sets the error at zero.
Countdown ==
  /\ ~page.left
  /\ page.timeLeft > 0
  /\ page' = [page EXCEPT !.timeLeft = @ - 1,
                          !.status = IF page.timeLeft - 1 <= 0
                                     THEN "error" ELSE @]
  /\ PageOnly

\* The customer pays: from now on the gateway reports the invoice PAID.
CustomerPays ==
  /\ page.invoiceId # Null
  /\ ~page.paid
  /\ page' = [page EXCEPT !.paid = TRUE]
  /\ PageOnly

\* The customer presses the button: checkPaymentStatus of the current render.
ClickCheck ==
  /\ ~page.left
  /\ Cardinality(page.checks \cup checkPaymentStatus(CurrentRender))
       <= MaxChecks
  /\ page' = [page EXCEPT !.checks = @ \cup checkPaymentStatus(CurrentRender)]
  /\ PageOnly

\* The answer to GET /api/qpay/invoice/:id arrives in a check.  PAID sets the
\* success and the timer of the redirect; otherwise the check is repeated
\* after 3 seconds when the state its render read is waiting with time left.
CheckAnswer(check, reportsPaid) ==
  /\ ~page.left
  /\ check \in page.checks
  /\ check.phase = "fetch"
  /\ reportsPaid => page.paid
  /\ IF reportsPaid
     THEN page' = [page EXCEPT !.status = "success",
                               !.redirect = TRUE,
                               !.checks = @ \ {check}]
     ELSE IF check.timeLeft > 0 /\ check.status = "waiting"
     THEN page' = [page EXCEPT
                     !.checks = (@ \ {check})
                                  \cup {[check EXCEPT !.phase = "timer"]}]
     ELSE page' = [page EXCEPT !.checks = @ \ {check}]
  /\ PageOnly

\* setTimeout(checkPaymentStatus, 3000) fires: the same function runs again.
CheckTimer(check) ==
  /\ ~page.left
  /\ check \in page.checks
  /\ check.phase = "timer"
  /\ page' = [page EXCEPT
                !.checks = (@ \ {check}) \cup checkPaymentStatus(check)]
  /\ PageOnly

\* The timer of the redirect fires: the browser leaves the page.
Redirect ==
  /\ ~page.left
  /\ page.redirect
  /\ page' = [page EXCEPT !.left = TRUE]
  /\ PageOnly

PageInit == Init

PageNext ==
  \/ \E success \in BOOLEAN : CreateInvoiceAnswer(success)
  \/ Countdown
  \/ CustomerPays
  \/ ClickCheck
  \/ \E check \in page.checks, reportsPaid \in BOOLEAN :
       CheckAnswer(check, reportsPaid)
  \/ \E check \in page.checks : CheckTimer(check)
  \/ Redirect

SpecPage == PageInit /\ [][PageNext]_vars

\* C37: while the page waits with an invoice and time left, a status check
\* is under way, awaiting its answer or its 3 seconds, without anybody
\* pressing a button; and a page that shows the success is not given the
\* error.
C37_PollsUntilDone ==
  /\ []( ( /\ ~page.left
           /\ page.status = "waiting"
           /\ page.invoiceId # Null
           /\ page.timeLeft > 0 )
         => page.checks # {} )
  /\ [][ page.status = "success" => page'.status # "error" ]_vars
=============================================================================
